---- MODULE Spec2Model ----
(***************************************************************************)
(* A model of chain-rs: the Hash, Block and Chain types of lib/src and the *)
(* operations add_block, validate and accept of Chain.                     *)
(*                                                                         *)
(* Representation.                                                         *)
(*  - A byte string is a sequence of atoms.  An atom is <<b>> for the      *)
(*    concrete byte b, or <<input, from, to>> for the bytes from..to-1 of  *)
(*    the SHA-256 digest of the byte string input.  The digest primitive   *)
(*    (crate crypto_hash) is outside the repository and is modelled as an  *)
(*    ideal, collision-free function: two digests are equal exactly when   *)
(*    their inputs are equal.                                              *)
(*    A byte string is kept in normal form: adjacent pieces of the same    *)
(*    digest are written as one atom.                                      *)
(*  - A u128 is represented by its 16 little-endian bytes, and a           *)
(*    Hash(u128, u128) by the 32 bytes of its two words.                   *)
(*  - A SystemTime is an integer number of milliseconds since UNIX_EPOCH   *)
(*    (the resolution the hash sees; finer resolution is not represented). *)
(*  - A Payload (a String) is the sequence of its character codes.         *)
(***************************************************************************)
EXTENDS Integers, Sequences, FiniteSets, TLC

\* ---------------------------------------------------------------- bounds
\* the longest chain add_block builds
MaxLen == 3
\* how often a competing chain is damaged, in Spec and in SpecTest
MaxTamper == 1
MaxTestTamper == 2

\* the requests the server receives
MaxRequests == 3

\* the values SystemTime::now() may return, and the payloads submitted
Times == {0, 1}
Payloads == { <<97>> }
\* the payload the tests write into a block with set_payload
TamperPayloads == { <<120>> }

\* ------------------------------------------------------- byte strings

IsRun(atom) == Len(atom) = 3

ByteLen(atom) == IF IsRun(atom) THEN atom[3] - atom[2] ELSE 1

\* the first n bytes of the atom, and the atom without its first n bytes
AtomTake(atom, n) == IF IsRun(atom) THEN <<atom[1], atom[2], atom[2] + n>> ELSE atom
AtomDrop(atom, n) == IF IsRun(atom) THEN <<atom[1], atom[2] + n, atom[3]>> ELSE atom

\* concatenation, in normal form
Cat(x, y) ==
    IF x = <<>> THEN y
    ELSE IF y = <<>> THEN x
    ELSE LET l == x[Len(x)]
             f == y[1]
         IN  IF IsRun(l) /\ IsRun(f) /\ l[1] = f[1] /\ l[3] = f[2]
             THEN SubSeq(x, 1, Len(x) - 1) \o << <<l[1], l[2], f[3]>> >> \o Tail(y)
             ELSE x \o y

\* bytes[from..to]
RECURSIVE Slice(_, _, _)
Slice(bytes, from, to) ==
    IF bytes = <<>> \/ to <= 0 THEN <<>>
    ELSE LET n == ByteLen(bytes[1]) IN
         IF from >= n THEN Slice(Tail(bytes), from - n, to - n)
         ELSE LET lo == IF from > 0 THEN from ELSE 0
                  hi == IF to < n THEN to ELSE n
              IN  Cat(<< AtomTake(AtomDrop(bytes[1], lo), hi - lo) >>,
                      Slice(Tail(bytes), 0, to - n))

\* ------------------------------------------------------------ hash.rs

\* crypto_hash::digest(Algorithm::SHA256, bytes)
digest(bytes) == << <<bytes, 0, 32>> >>

\* the u128 of a number below 2^24
u128(n) ==
    [i \in 1..16 |-> << IF i <= 3 THEN (n \div (256 ^ (i - 1))) % 256 ELSE 0 >>]

\* struct Hash(u128, u128) and its fields .0 and .1
Hash(w0, w1) == Cat(w0, w1)

Hash_0(h) == Slice(h, 0, 16)

Hash_1(h) == Slice(h, 16, 32)

\* #[derive(Default)]
Hash_default == Hash(u128(0), u128(0))

Hash_from_bytes(bytes) ==
    LET hash == digest(bytes)
    IN  Hash(Slice(hash, 0, 16), Slice(hash, 16, 32))

\* [self.0.to_le_bytes(), self.1.to_le_bytes()].concat()
Hash_bytes(h) == Cat(Hash_0(h), Hash_1(h))

\* hex::encode: two characters per byte, the high nibble first. A character
\* is an atom like a byte: <<d>> is the digit of value d, <<input, from, to>>
\* are the characters from..to-1 of the hex form of the digest of input.
RECURSIVE hex_encode(_)
hex_encode(bytes) ==
    IF bytes = << >> THEN << >>
    ELSE LET a == bytes[1]
         IN  Cat(IF IsRun(a) THEN << <<a[1], 2 * a[2], 2 * a[3]>> >>
                 ELSE << <<a[1] \div 16>>, <<a[1] % 16>> >>,
                 hex_encode(Tail(bytes)))

\* hex::decode of a string of whole bytes
RECURSIVE hex_decode(_)
hex_decode(v) ==
    IF v = << >> THEN << >>
    ELSE IF IsRun(v[1])
         THEN Cat(<< <<v[1][1], v[1][2] \div 2, v[1][3] \div 2>> >>,
                  hex_decode(Tail(v)))
         ELSE Cat(<< <<16 * v[1][1] + v[2][1]>> >>, hex_decode(Tail(Tail(v))))

\* impl Serialize for Hash: the string handed to serialize_str
serialize(h) ==
    LET bytes == Cat(Hash_0(h), Hash_1(h))
    IN  hex_encode(bytes)

\* a visitor that decodes all 64 characters and rebuilds the two words
visit_string_whole(v) ==
    LET bytes == hex_decode(Slice(v, 0, 64))
    IN  Hash(Slice(bytes, 0, 16), Slice(bytes, 16, 32))

\* HashVisitor::visit_string
visit_string(v) ==
    LET lower == hex_decode(Slice(v, 0, 16))
        upper == hex_decode(Slice(v, 16, 32))
    IN  Hash_from_bytes(Cat(lower, upper))

\* ----------------------------------------------------------- block.rs

UNIX_EPOCH == 0

\* timestamp.duration_since(UNIX_EPOCH).unwrap().as_millis()
as_millis(t) == t - UNIX_EPOCH

as_bytes(payload) == [i \in 1..Len(payload) |-> << payload[i] >>]

\* impl Hashable for Block: bytes()
Block_bytes(b) ==
    Cat(Cat(u128(as_millis(b.timestamp)), Hash_bytes(b.prev_hash)),
        as_bytes(b.payload))

\* Hashable::make_hash
make_hash(b) == Hash_from_bytes(Block_bytes(b))

\* a constructor that leaves the hash field at its default
Block_new_nohash(timestamp, prev_hash, payload) ==
    [timestamp |-> timestamp, prev_hash |-> prev_hash,
     hash |-> Hash_default, payload |-> payload]

Block_new(timestamp, prev_hash, payload) ==
    LET block == [timestamp |-> timestamp, prev_hash |-> prev_hash,
                  hash |-> Hash_default, payload |-> payload]
    IN  [block EXCEPT !.hash = make_hash(block)]

\* "Genesis block"
GenesisPayload == <<71, 101, 110, 101, 115, 105, 115, 32, 98, 108, 111, 99, 107>>

Block_genesis == Block_new(UNIX_EPOCH, Hash_from_bytes(<< <<1>> >>), GenesisPayload)

\* mining on the predecessor's prev_hash instead of its hash
Block_mine_prev(prev_block, payload, now) == Block_new(now, prev_block.prev_hash, payload)

Block_mine(prev_block, payload, now) == Block_new(now, prev_block.hash, payload)

set_payload(b, payload) == [b EXCEPT !.payload = payload]

\* impl Default for Block
Block_default ==
    [timestamp |-> UNIX_EPOCH, prev_hash |-> Hash_default,
     hash |-> Hash_default, payload |-> << >>]

\* SystemTime::duration_since: Err when the time is before the earlier one
duration_since(t, earlier) ==
    IF t >= earlier THEN [ok |-> TRUE, millis |-> t - earlier]
    ELSE [ok |-> FALSE, millis |-> earlier - t]

\* a call of Block::new: make_hash calls bytes(), which unwraps
\* timestamp.duration_since(UNIX_EPOCH) and so panics on an Err
Block_new_call(timestamp, prev_hash, payload) ==
    IF duration_since(timestamp, UNIX_EPOCH).ok
    THEN [panic |-> FALSE, block |-> << Block_new(timestamp, prev_hash, payload) >>]
    ELSE [panic |-> TRUE, block |-> << >>]

\* ----------------------------------------------------------- chain.rs

\* the two checks in the other order
validate_neighbour_block_swapped(previous, current) ==
    IF current.hash # make_hash(current) THEN "InvalidHash"
    ELSE IF previous.hash # current.prev_hash THEN "InvalidPrevHash"
    ELSE "Ok"

\* the link check alone
validate_neighbour_block_linkonly(previous, current) ==
    IF previous.hash # current.prev_hash THEN "InvalidPrevHash"
    ELSE "Ok"

validate_neighbour_block(previous, current) ==
    IF previous.hash # current.prev_hash THEN "InvalidPrevHash"
    ELSE IF current.hash # make_hash(current) THEN "InvalidHash"
    ELSE "Ok"

\* blocks.windows(2).try_for_each(...), from the window that ends at index i
RECURSIVE try_for_each(_, _)
try_for_each(blocks, i) ==
    IF i > Len(blocks) THEN "Ok"
    ELSE LET r == validate_neighbour_block(blocks[i - 1], blocks[i])
         IN  IF r # "Ok" THEN r ELSE try_for_each(blocks, i + 1)

\* a validate that cuts a chain it rejects back to its first block
validate_truncating(blocks) ==
    LET ret == IF Len(blocks) = 0 THEN "EmptyChain"
               ELSE IF blocks[1] # Block_genesis THEN "BadGenesisBlock"
               ELSE try_for_each(blocks, 2)
    IN  [blocks |-> IF ret \in {"Ok", "EmptyChain"} THEN blocks ELSE << Block_genesis >>,
         ret |-> ret]

\* validate: the chain afterwards (&self: as before) and the value returned
validate(blocks) ==
    [blocks |-> blocks,
     ret |-> IF Len(blocks) = 0 THEN "EmptyChain"
             ELSE IF blocks[1] # Block_genesis THEN "BadGenesisBlock"
             ELSE try_for_each(blocks, 2)]

\* an add_block that mines on a default block when there is no tip
add_block_or_default(blocks, payload, now) ==
    LET prev == IF Len(blocks) = 0
                THEN [timestamp |-> UNIX_EPOCH, prev_hash |-> Hash_default,
                      hash |-> Hash_default, payload |-> <<>>]
                ELSE blocks[Len(blocks)]
    IN  [blocks |-> Append(blocks, Block_mine(prev, payload, now)), ret |-> "Ok"]

\* add_block: the chain afterwards and the value returned
add_block(blocks, payload, now) ==
    IF Len(blocks) = 0 THEN [blocks |-> blocks, ret |-> "NoPrev"]
    ELSE [blocks |-> Append(blocks, Block_mine(blocks[Len(blocks)], payload, now)),
          ret |-> "Ok"]

\* an accept that adopts the longer valid chain whole
accept_replace(blocks, other) ==
    IF Len(other) <= Len(blocks) THEN [blocks |-> blocks, ret |-> "Ok"]
    ELSE IF validate(other).ret # "Ok" THEN [blocks |-> blocks, ret |-> validate(other).ret]
    ELSE [blocks |-> other, ret |-> "Ok"]

\* an accept that takes the missing blocks from one index too far
accept_skip_one_more(blocks, other) ==
    IF Len(other) <= Len(blocks) THEN [blocks |-> blocks, ret |-> "Ok"]
    ELSE IF validate(other).ret # "Ok" THEN [blocks |-> blocks, ret |-> validate(other).ret]
    ELSE [blocks |-> blocks \o SubSeq(other, Len(blocks) + 2, Len(other)), ret |-> "Ok"]

\* an accept that appends before it validates
accept_append_first(blocks, other) ==
    IF Len(other) <= Len(blocks) THEN [blocks |-> blocks, ret |-> "Ok"]
    ELSE [blocks |-> blocks \o SubSeq(other, Len(blocks) + 1, Len(other)),
          ret |-> validate(other).ret]

\* an accept that validates before it compares the lengths
accept_validate_first(blocks, other) ==
    IF validate(other).ret # "Ok" THEN [blocks |-> blocks, ret |-> validate(other).ret]
    ELSE IF Len(other) <= Len(blocks) THEN [blocks |-> blocks, ret |-> "Ok"]
    ELSE [blocks |-> blocks \o SubSeq(other, Len(blocks) + 1, Len(other)), ret |-> "Ok"]

\* an accept that refuses a chain that does not continue from its own tip
accept_common_tip(blocks, other) ==
    IF Len(other) <= Len(blocks) THEN [blocks |-> blocks, ret |-> "Ok"]
    ELSE IF validate(other).ret # "Ok" THEN [blocks |-> blocks, ret |-> validate(other).ret]
    ELSE IF Len(blocks) > 0 /\ other[Len(blocks)].hash # blocks[Len(blocks)].hash
         THEN [blocks |-> blocks, ret |-> "InvalidPrevHash"]
    ELSE [blocks |-> blocks \o SubSeq(other, Len(blocks) + 1, Len(other)), ret |-> "Ok"]

\* an accept that appends from its own tip's index, one block too early
accept_skip_one_less(blocks, other) ==
    IF Len(other) <= Len(blocks) THEN [blocks |-> blocks, ret |-> "Ok"]
    ELSE IF validate(other).ret # "Ok" THEN [blocks |-> blocks, ret |-> validate(other).ret]
    ELSE [blocks |-> blocks \o SubSeq(other, Len(blocks), Len(other)), ret |-> "Ok"]

\* an accept that adopts any longer chain whole, without validating it
accept_adopt_unchecked(blocks, other) ==
    IF Len(other) <= Len(blocks) THEN [blocks |-> blocks, ret |-> "Ok"]
    ELSE [blocks |-> other, ret |-> "Ok"]

\* accept: self afterwards and the value returned
accept(blocks, other) ==
    IF Len(other) <= Len(blocks) THEN [blocks |-> blocks, ret |-> "Ok"]
    ELSE IF validate(other).ret # "Ok" THEN [blocks |-> blocks, ret |-> validate(other).ret]
    ELSE [blocks |-> blocks \o SubSeq(other, Len(blocks) + 1, Len(other)), ret |-> "Ok"]

\* a default chain without its genesis block
Chain_default_empty == << >>

Chain_default == << Block_genesis >>

\* ------------------------------------------------------- state machine
\* main:     the blocks of the chain the program owns (self of accept, and
\*           the chain behind the server's mutex); it is only ever changed
\*           by add_block and accept
\* incoming: the blocks of a second chain: the competing chain handed to
\*           accept, and the chain the tests build and damage
\* tampers:  how many times incoming was modified behind the API
\* last:     the last operation: its name, the chain it ran on, that chain
\*           before the call, its arguments and the value it returned
\* held:     a Block value held outside any chain
\* wire:     a Hash on its way through serialize and deserialize
\* mutex:    the thread that holds the lock of the server's chain, 0 if none
\* pc:       where each request handler of the server stands
\* local:    each handler's request and local variables
\* snaps:    the block lists returned by get_blocks, in the order taken
VARIABLES main, incoming, tampers, last, held, wire, mutex, pc, local, snaps

chainVars == <<main, incoming, tampers>>

blockVars == <<held, wire>>

serverVars == <<mutex, pc, local, snaps>>

vars == <<main, incoming, tampers, last, held, wire, mutex, pc, local, snaps>>

Call(op, on, pre, payload, other, idx, ret) ==
    [op |-> op, on |-> on, pre |-> pre, payload |-> payload, other |-> other,
     idx |-> idx, ret |-> ret]

\* the timestamps handed to Block::new: one before the epoch
BlockTimes == {-1, 0, 1}

\* the prev_hash values handed to Block::new
PrevHashes == {Hash_default, Hash_from_bytes(<< <<1>> >>)}

\* the hashes sent over the wire: of leading zero bytes, and digests
WireHashes == {Hash_default, Hash_from_bytes(<< <<1>> >>), Block_genesis.hash}

\* one thread of the server per request
Threads == 1..MaxRequests

\* the payloads posted to the server
ServerPayloads == {<<97>>, <<98>>}

\* Mutex::new: not held, not poisoned
Mutex_new == [holder |-> 0, poisoned |-> FALSE]

\* a lock that is granted whoever holds it
lock_never_blocks(m) == TRUE

\* Mutex::lock returns once no thread holds the mutex
lock_free(m) == m.holder = 0

\* a push that overwrites the last element
push_over_last(blocks, b) ==
    IF Len(blocks) = 0 THEN << b >> ELSE [blocks EXCEPT ![Len(blocks)] = b]

\* Vec::push
push(blocks, b) == Append(blocks, b)

\* a handler that has not received its request
NoRequest == [kind |-> "none", payload |-> << >>, block |-> << >>, blocks |-> << >>]

Init ==
    /\ main = Chain_default
    /\ incoming = Chain_default
    /\ tampers = 0
    /\ last = Call("default", "main", <<>>, <<>>, <<>>, 0, "Ok")
    /\ held = Block_genesis
    /\ wire = [state |-> "empty", hash |-> Hash_default, text |-> << >>,
               decoded |-> Hash_default]
    /\ mutex = Mutex_new
    /\ pc = [t \in Threads |-> "idle"]
    /\ local = [t \in Threads |-> NoRequest]
    /\ snaps = << >>

MainAddBlock ==
    \E payload \in Payloads, now \in Times :
        LET r == add_block(main, payload, now) IN
        /\ Len(main) < MaxLen
        /\ main' = r.blocks
        /\ last' = Call("add_block", "main", main, payload, <<>>, 0, r.ret)
        /\ UNCHANGED <<incoming, tampers, blockVars, serverVars>>

IncomingAddBlock ==
    \E payload \in Payloads, now \in Times :
        LET r == add_block(incoming, payload, now) IN
        /\ Len(incoming) < MaxLen
        /\ incoming' = r.blocks
        /\ last' = Call("add_block", "incoming", incoming, payload, <<>>, 0, r.ret)
        /\ UNCHANGED <<main, tampers, blockVars, serverVars>>

MainValidate ==
    LET r == validate(main) IN
    /\ main' = r.blocks
    /\ last' = Call("validate", "main", main, <<>>, <<>>, 0, r.ret)
    /\ UNCHANGED <<incoming, tampers, blockVars, serverVars>>

IncomingValidate ==
    LET r == validate(incoming) IN
    /\ incoming' = r.blocks
    /\ last' = Call("validate", "incoming", incoming, <<>>, <<>>, 0, r.ret)
    /\ UNCHANGED <<main, tampers, blockVars, serverVars>>

\* main.accept(incoming): incoming is moved into the call; the next competing
\* chain starts from Chain::default()
Accept ==
    LET r == accept(main, incoming) IN
    /\ main' = r.blocks
    /\ incoming' = Chain_default
    /\ last' = Call("accept", "main", main, <<>>, incoming, 0, r.ret)
    /\ UNCHANGED <<tampers, blockVars, serverVars>>

\* chain.blocks = vec![]
TamperClear(budget) ==
    /\ tampers < budget
    /\ incoming # <<>>
    /\ incoming' = <<>>
    /\ tampers' = tampers + 1
    /\ last' = Call("clear", "incoming", <<>>, <<>>, <<>>, 0, "Ok")
    /\ UNCHANGED <<main, blockVars, serverVars>>

\* *x = Block::new(x.get_timestamp(), Hash::default(), x.get_payload().clone())
TamperPrevHash(budget) ==
    \E i \in 1..Len(incoming) :
        LET x == incoming[i] IN
        /\ tampers < budget
        /\ incoming' = [incoming EXCEPT
                           ![i] = Block_new(x.timestamp, Hash_default, x.payload)]
        /\ tampers' = tampers + 1
        /\ last' = Call("replace", "incoming", incoming, <<>>, <<>>, i, "Ok")
        /\ UNCHANGED <<main, blockVars, serverVars>>

\* x.set_payload(payload)
TamperPayload(budget) ==
    \E i \in 1..Len(incoming), payload \in TamperPayloads :
        /\ tampers < budget
        /\ incoming' = [incoming EXCEPT ![i] = set_payload(incoming[i], payload)]
        /\ tampers' = tampers + 1
        /\ last' = Call("set_payload", "incoming", incoming, payload, <<>>, i, "Ok")
        /\ UNCHANGED <<main, blockVars, serverVars>>

\* The program and its peers: the owned chain grows by add_block and accept,
\* competing chains are built, possibly damaged, and offered to accept.
Next ==
    \/ MainAddBlock
    \/ IncomingAddBlock
    \/ MainValidate
    \/ IncomingValidate
    \/ Accept
    \/ TamperClear(MaxTamper)
    \/ TamperPrevHash(MaxTamper)
    \/ TamperPayload(MaxTamper)

Spec == Init /\ [][Next]_vars

\* One chain under test, as in the tests of chain.rs: built with add_block,
\* damaged behind the API, validated.
NextTest ==
    \/ IncomingAddBlock
    \/ IncomingValidate
    \/ TamperClear(MaxTestTamper)
    \/ TamperPrevHash(MaxTestTamper)
    \/ TamperPayload(MaxTestTamper)

SpecTest == Init /\ [][NextTest]_vars

\* ------------------------------------------------------ block values
BlockNew ==
    \E timestamp \in BlockTimes, prev_hash \in PrevHashes, payload \in Payloads :
        LET r == Block_new_call(timestamp, prev_hash, payload) IN
        /\ held' = IF r.panic THEN held ELSE r.block[1]
        /\ last' = Call("Block::new", "held", <<>>, payload, <<>>, timestamp,
                        IF r.panic THEN "panic" ELSE "Ok")
        /\ UNCHANGED <<wire, chainVars, serverVars>>

BlockGenesis ==
    /\ held' = Block_genesis
    /\ last' = Call("Block::genesis", "held", <<>>, <<>>, <<>>, 0, "Ok")
    /\ UNCHANGED <<wire, chainVars, serverVars>>

\* Block::mine(&held, payload); a block is mined on a constructed block or on
\* a block mined on one
BlockMine ==
    \E payload \in Payloads, now \in Times :
        /\ held.prev_hash \in PrevHashes
        /\ held' = Block_mine(held, payload, now)
        /\ last' = Call("Block::mine", "held", <<>>, payload, <<>>, now, "Ok")
        /\ UNCHANGED <<wire, chainVars, serverVars>>

BlockDefault ==
    /\ held' = Block_default
    /\ last' = Call("Block::default", "held", <<>>, <<>>, <<>>, 0, "Ok")
    /\ UNCHANGED <<wire, chainVars, serverVars>>

BlockSetPayload ==
    \E payload \in TamperPayloads :
        /\ held' = set_payload(held, payload)
        /\ last' = Call("set_payload", "held", <<>>, payload, <<>>, 0, "Ok")
        /\ UNCHANGED <<wire, chainVars, serverVars>>

\* a Hash is serialized
Serialize ==
    \E h \in WireHashes :
        /\ wire' = [state |-> "encoded", hash |-> h, text |-> serialize(h),
                    decoded |-> Hash_default]
        /\ UNCHANGED <<held, last, chainVars, serverVars>>

\* the serialized string is handed to HashVisitor::visit_string
Deserialize ==
    /\ wire.state = "encoded"
    /\ wire' = [wire EXCEPT !.state = "decoded", !.decoded = visit_string(wire.text)]
    /\ UNCHANGED <<held, last, chainVars, serverVars>>

\* Block values are constructed and modified through the API of block.rs, and
\* their hashes sent over the wire.
NextBlock ==
    \/ BlockDefault
    \/ BlockNew
    \/ BlockGenesis
    \/ BlockMine
    \/ BlockSetPayload
    \/ Serialize
    \/ Deserialize

SpecBlock == Init /\ [][NextBlock]_vars

\* ------------------------------------------------------------- server
\* a GET /blocks request arrives
RequestGetBlocks(t) ==
    /\ pc[t] = "idle"
    /\ pc' = [pc EXCEPT ![t] = "lock"]
    /\ local' = [local EXCEPT ![t] = [NoRequest EXCEPT !.kind = "get_blocks"]]
    /\ UNCHANGED <<mutex, snaps, last, chainVars, blockVars>>

\* a POST /blocks request arrives
RequestMineBlock(t) ==
    \E payload \in ServerPayloads :
        /\ pc[t] = "idle"
        /\ pc' = [pc EXCEPT ![t] = "lock"]
        /\ local' = [local EXCEPT ![t] = [NoRequest EXCEPT !.kind = "mine_block",
                                                            !.payload = payload]]
        /\ UNCHANGED <<mutex, snaps, last, chainVars, blockVars>>

\* chain_state.0.lock().expect("locked blockchain")
Lock(t) ==
    /\ pc[t] = "lock"
    /\ lock_free(mutex)
    /\ IF mutex.poisoned
       THEN pc' = [pc EXCEPT ![t] = "panicked"] /\ UNCHANGED mutex
       ELSE pc' = [pc EXCEPT ![t] = "locked"] /\ mutex' = [mutex EXCEPT !.holder = t]
    /\ UNCHANGED <<local, snaps, last, chainVars, blockVars>>

\* let blocks = lock.get_blocks()
GetBlocksClone(t) ==
    /\ pc[t] = "locked"
    /\ local[t].kind = "get_blocks"
    /\ local' = [local EXCEPT ![t].blocks = main]
    /\ snaps' = Append(snaps, main)
    /\ pc' = [pc EXCEPT ![t] = "return"]
    /\ UNCHANGED <<mutex, last, chainVars, blockVars>>

\* add_block, first statement: Block::mine(self.blocks.last().ok_or(NoPrev)?,
\* payload); mine_block unwraps the result and panics, holding the lock
MineBlockMine(t) ==
    \E now \in Times :
        /\ pc[t] = "locked"
        /\ local[t].kind = "mine_block"
        /\ IF Len(main) = 0
           THEN /\ pc' = [pc EXCEPT ![t] = "panicked"]
                /\ mutex' = [holder |-> 0, poisoned |-> TRUE]
                /\ UNCHANGED local
           ELSE /\ pc' = [pc EXCEPT ![t] = "mined"]
                /\ local' = [local EXCEPT ![t].block =
                                << Block_mine(main[Len(main)], local[t].payload, now) >>]
                /\ UNCHANGED mutex
        /\ UNCHANGED <<snaps, last, chainVars, blockVars>>

\* add_block, second statement: self.blocks.push(block)
MineBlockPush(t) ==
    /\ pc[t] = "mined"
    /\ main' = push(main, local[t].block[1])
    /\ pc' = [pc EXCEPT ![t] = "return"]
    /\ UNCHANGED <<incoming, tampers, mutex, local, snaps, last, blockVars>>

\* the handler returns its Json value and its guard is dropped
Return(t) ==
    /\ pc[t] = "return"
    /\ mutex' = [mutex EXCEPT !.holder = 0]
    /\ pc' = [pc EXCEPT ![t] = "done"]
    /\ UNCHANGED <<local, snaps, last, chainVars, blockVars>>

\* The server: every request runs its handler on a thread of its own, on the
\* one chain behind the mutex.
NextServer ==
    \E t \in Threads :
        \/ RequestGetBlocks(t)
        \/ RequestMineBlock(t)
        \/ Lock(t)
        \/ GetBlocksClone(t)
        \/ MineBlockMine(t)
        \/ MineBlockPush(t)
        \/ Return(t)

SpecServer == Init /\ [][NextServer]_vars

\* ------------------------------------------------------------ claims

\* the chain the last operation ran on, as it is now
Target == IF last.on = "main" THEN main ELSE incoming

IsPrefix(s, t) == Len(s) <= Len(t) /\ SubSeq(t, 1, Len(s)) = s

\* link integrity and content integrity of the block at position i (from 2)
LinkOk(blocks, i) == blocks[i - 1].hash = blocks[i].prev_hash

ContentOk(blocks, i) == blocks[i].hash = Hash_from_bytes(Block_bytes(blocks[i]))

PairOk(blocks, i) == LinkOk(blocks, i) /\ ContentOk(blocks, i)

\* the first violated invariant, in the order empty chain, bad genesis, then
\* pair by pair the link before the content
FirstViolation(blocks) ==
    IF blocks = <<>> THEN "EmptyChain"
    ELSE IF blocks[1] # Block_genesis THEN "BadGenesisBlock"
    ELSE IF \A i \in 2..Len(blocks) : PairOk(blocks, i) THEN "Ok"
    ELSE LET k == CHOOSE k \in 2..Len(blocks) :
                      /\ ~PairOk(blocks, k)
                      /\ \A j \in 2..(k - 1) : PairOk(blocks, j)
         IN  IF ~LinkOk(blocks, k) THEN "InvalidPrevHash" ELSE "InvalidHash"

\* C1: validate returns Ok exactly when the chain is non-empty, starts with
\* the genesis block and every later block links to its predecessor and
\* carries the hash of its content; otherwise it returns the first violation
\* in the order EmptyChain, BadGenesisBlock, then per pair InvalidPrevHash
\* before InvalidHash.
C1_ValidateFirstViolation ==
    last.op = "validate" => last.ret = FirstViolation(last.pre)

\* a validated chain whose first bad pair breaks both the link and the content
C1_Witness ==
    /\ last.op = "validate"
    /\ last.ret = "InvalidPrevHash"
    /\ \E k \in 2..Len(last.pre) :
          /\ ~LinkOk(last.pre, k)
          /\ ~ContentOk(last.pre, k)
          /\ \A j \in 2..(k - 1) : PairOk(last.pre, j)

\* the blocks of other that self is missing
Missing(blocks, other) == SubSeq(other, Len(blocks) + 1, Len(other))

\* C2: accept with a longer other on which validate returns Ok returns Ok and
\* leaves self as its old blocks followed by other's blocks from index
\* len(self) on, so the lengths agree afterwards and the old blocks stay;
\* this holds whether or not the first appended block links to the old tip.
C2_AcceptAppendsMissing ==
    (/\ last.op = "accept"
     /\ Len(last.other) > Len(last.pre)
     /\ validate(last.other).ret = "Ok")
    => /\ last.ret = "Ok"
       /\ main = last.pre \o Missing(last.pre, last.other)
       /\ Len(main) = Len(last.other)
       /\ SubSeq(main, 1, Len(last.pre)) = last.pre

\* an accepted longer chain whose first missing block does not link to the
\* old tip
C2_Witness ==
    /\ last.op = "accept"
    /\ last.pre # <<>>
    /\ Len(last.other) > Len(last.pre)
    /\ validate(last.other).ret = "Ok"
    /\ last.other[Len(last.pre) + 1].prev_hash # last.pre[Len(last.pre)].hash
    /\ Len(main) = Len(last.other)

\* C3: accept with a longer other on which validate fails returns exactly
\* the error validate returns and leaves self unchanged.
C3_AcceptRejectsInvalid ==
    (/\ last.op = "accept"
     /\ Len(last.other) > Len(last.pre)
     /\ validate(last.other).ret # "Ok")
    => /\ last.ret = validate(last.other).ret
       /\ main = last.pre

\* a longer chain refused with InvalidHash by a chain of at least two blocks
C3_Witness ==
    /\ last.op = "accept"
    /\ Len(last.pre) >= 2
    /\ Len(last.other) > Len(last.pre)
    /\ last.ret = "InvalidHash"
    /\ main = last.pre

\* C4: accept with an other that is not longer returns Ok and leaves self
\* unchanged, whatever other is (other is not validated on this path).
C4_AcceptIgnoresNotLonger ==
    (last.op = "accept" /\ Len(last.other) <= Len(last.pre))
    => (last.ret = "Ok" /\ main = last.pre)

\* an equally long other that validate rejects, accepted as a no-op
C4_Witness ==
    /\ last.op = "accept"
    /\ Len(last.other) = Len(last.pre)
    /\ Len(last.pre) >= 2
    /\ validate(last.other).ret # "Ok"
    /\ last.ret = "Ok"

\* C5: the chain is append-only under add_block and accept: the chain
\* before the call is a prefix of the chain after it (no block changed or
\* removed, the length not decreased), and accept leaves self as it was when
\* other is not longer or is invalid.
C5_AppendOnly ==
    /\ last.op \in {"add_block", "accept"} => IsPrefix(last.pre, Target)
    /\ (/\ last.op = "accept"
        /\ \/ Len(last.other) <= Len(last.pre)
           \/ validate(last.other).ret # "Ok")
       => Target = last.pre

\* an accept that grew a chain of at least two blocks from a chain that
\* differs from it at the second block
C5_Witness ==
    /\ last.op = "accept"
    /\ Len(last.pre) >= 2
    /\ Len(main) > Len(last.pre)
    /\ last.other[2] # last.pre[2]

\* C6: add_block on a non-empty chain returns Ok and appends exactly one
\* block: its prev_hash is the hash of the old tip, its payload the payload
\* given, its hash the hash of its own content; the earlier blocks are
\* unchanged.  The chain is not validated: the same holds on a chain that
\* validate rejects.
C6_AddBlockAppendsMined ==
    (last.op = "add_block" /\ last.pre # <<>>)
    => /\ last.ret = "Ok"
       /\ Len(Target) = Len(last.pre) + 1
       /\ SubSeq(Target, 1, Len(last.pre)) = last.pre
       /\ LET block == Target[Len(Target)] IN
          /\ block.prev_hash = last.pre[Len(last.pre)].hash
          /\ block.payload = last.payload
          /\ block.hash = Hash_from_bytes(Block_bytes(block))
          /\ block.timestamp \in Times

\* add_block on a chain that validate rejects
C6_Witness ==
    /\ last.op = "add_block"
    /\ last.pre # <<>>
    /\ validate(last.pre).ret \in {"InvalidHash", "InvalidPrevHash", "BadGenesisBlock"}
    /\ last.ret = "Ok"
    /\ Len(Target) = Len(last.pre) + 1

\* C7: add_block on an empty chain returns NoPrev as an ordinary result
\* and leaves the chain empty.
C7_AddBlockEmptyNoPrev ==
    (last.op = "add_block" /\ last.pre = <<>>)
    => (last.ret = "NoPrev" /\ Target = <<>>)

\* add_block was called on an empty chain
C7_Witness ==
    /\ last.op = "add_block"
    /\ last.pre = <<>>
    /\ last.ret = "NoPrev"

\* C8: a chain reached from Chain::default() by add_block calls only
\* satisfies the link invariant chain[i].hash = chain[i+1].prev_hash for all
\* i, and validate returns Ok on it.
C8_FreshlyMinedValid ==
    tampers = 0
    => /\ \A i \in 2..Len(incoming) : LinkOk(incoming, i)
       /\ validate(incoming).ret = "Ok"
       /\ (last.op = "validate" => last.ret = "Ok")

\* genesis and two mined blocks, validated
C8_Witness ==
    /\ tampers = 0
    /\ Len(incoming) = 3
    /\ last.op = "validate"
    /\ last.ret = "Ok"

\* the payload of the block was changed, resp. its prev_hash was replaced
\* by a different value, in a chain that was valid
PayloadMutated ==
    /\ last.op = "set_payload"
    /\ validate(last.pre).ret = "Ok"
    /\ last.payload # last.pre[last.idx].payload

PrevHashMutated ==
    /\ last.op = "replace"
    /\ validate(last.pre).ret = "Ok"
    /\ incoming[last.idx].prev_hash # last.pre[last.idx].prev_hash

\* C9 as stated: mutating any block's payload (stored hash unchanged) makes
\* validate return InvalidHash, replacing any block's prev_hash makes it
\* return InvalidPrevHash.
C9_Original ==
    /\ PayloadMutated => validate(incoming).ret = "InvalidHash"
    /\ PrevHashMutated => validate(incoming).ret = "InvalidPrevHash"

\* C9 as amended: this holds for every block after the genesis block; a
\* mutated genesis block (position 1 here, index 0 in the code) makes validate
\* return BadGenesisBlock.
C9_TamperDetected ==
    /\ PayloadMutated =>
          validate(incoming).ret =
              IF last.idx = 1 THEN "BadGenesisBlock" ELSE "InvalidHash"
    /\ PrevHashMutated =>
          validate(incoming).ret =
              IF last.idx = 1 THEN "BadGenesisBlock" ELSE "InvalidPrevHash"

\* the payload of the second of three blocks was changed and its stored
\* hash left as it was
C9_Witness ==
    /\ PayloadMutated
    /\ last.idx = 2
    /\ Len(incoming) = 3
    /\ incoming[2].hash = last.pre[2].hash
    /\ validate(incoming).ret = "InvalidHash"

\* C10: validate is read-only: whatever it returns, the chain is afterwards
\* as it was before, and validate called again returns the same value.
C10_ValidateReadOnly ==
    last.op = "validate"
    => /\ Target = last.pre
       /\ validate(Target).ret = last.ret
       /\ validate(Target).blocks = last.pre

\* validate returned an error on a chain of three blocks
C10_Witness ==
    /\ last.op = "validate"
    /\ last.ret = "InvalidPrevHash"
    /\ Len(last.pre) = 3
    /\ Target = last.pre

\* C11: the initial state Chain::default() is a chain of length 1 whose only
\* block is Block::genesis(), and validate returns Ok on it.
C11_DefaultIsGenesis ==
    last.op = "default"
    => /\ Len(main) = 1
       /\ main[1] = Block_genesis
       /\ validate(main).ret = "Ok"

\* the chain as constructed, before any call
C11_Witness ==
    /\ last.op = "default"
    /\ Len(main) = 1
    /\ main[1].payload = GenesisPayload

\* accept was given a longer other, self and other both valid
AcceptedValidLonger ==
    /\ last.op = "accept"
    /\ validate(last.pre).ret = "Ok"
    /\ validate(last.other).ret = "Ok"
    /\ Len(last.other) > Len(last.pre)

\* other's block at index len(self)-1 has the hash of self's tip
SameTipHash == last.other[Len(last.pre)].hash = last.pre[Len(last.pre)].hash

\* C16: accept does not check for a common hash-linked prefix: when self and
\* a longer other are both valid and other does not continue from self's tip,
\* accept returns Ok and appends other's tail; self then breaks the link
\* invariant at the splice point and validate returns InvalidPrevHash on it.
C16_DivergentSplice ==
    (AcceptedValidLonger /\ ~SameTipHash)
    => /\ last.ret = "Ok"
       /\ main = last.pre \o Missing(last.pre, last.other)
       /\ ~LinkOk(main, Len(last.pre) + 1)
       /\ validate(main).ret = "InvalidPrevHash"

\* two valid chains that differ at their second block, the longer one accepted
C16_Witness ==
    /\ AcceptedValidLonger
    /\ ~SameTipHash
    /\ Len(last.pre) = 2
    /\ Len(main) = 3
    /\ validate(main).ret = "InvalidPrevHash"

\* C17: when self and a longer other are both valid and other's block at
\* index len(self)-1 has the hash of self's tip, validate returns Ok on self
\* after accept; when self's blocks are moreover a prefix of other's, self's
\* blocks equal other's afterwards.
C17_LinkedSpliceValid ==
    /\ (AcceptedValidLonger /\ SameTipHash) => validate(main).ret = "Ok"
    /\ (AcceptedValidLonger /\ SameTipHash /\ IsPrefix(last.pre, last.other))
       => main = last.other

\* a chain of two blocks accepted a valid chain of three that continues it
C17_Witness ==
    /\ AcceptedValidLonger
    /\ SameTipHash
    /\ IsPrefix(last.pre, last.other)
    /\ Len(last.pre) = 2
    /\ Len(main) = 3
    /\ validate(main).ret = "Ok"

\* C18: the chain reached from Chain::default() by add_block and accept,
\* whatever chains are offered to accept, has at least one block and
\* Block::genesis() first, so add_block on it never returns NoPrev.
C18_GenesisStays ==
    /\ Len(main) >= 1
    /\ main[1] = Block_genesis
    /\ (last.op = "add_block" /\ last.on = "main") => last.ret = "Ok"

\* a longer chain with another first block was offered and refused
C18_Witness ==
    /\ last.op = "accept"
    /\ Len(last.other) > Len(last.pre)
    /\ last.ret = "BadGenesisBlock"
    /\ main[1] = Block_genesis


\* C12: for every Block, as long as it lives, the stored hash is the hash
\* recomputed from its current timestamp, prev_hash and payload: after
\* Block::new, Block::genesis, Block::mine and Block::default, and after
\* set_payload.  Block::default() stores Hash::default() and set_payload
\* leaves the stored hash as it was, so this is violated.
C12_StoredHashIsRecomputed == held.hash = make_hash(held)

\* C13: Block::new always returns a block, whatever the timestamp (one before
\* the Unix epoch included), prev_hash and payload.  With a timestamp before
\* the epoch, bytes() unwraps the Err of duration_since and the call panics.
C13_NewAlwaysSucceeds == last.op = "Block::new" => last.ret = "Ok"

\* the number of bytes, or characters, of a string
RECURSIVE Length(_)
Length(bytes) == IF bytes = << >> THEN 0 ELSE ByteLen(bytes[1]) + Length(Tail(bytes))

\* C20: serializing a Hash h gives the 64-character hex form of its 32 bytes;
\* deserializing that string reads its first two 16-character segments only,
\* which are the first 16 bytes of h, and hashes them, so h comes back as
\* Hash::from_bytes of its first 16 bytes and not as h.
C20_DecodeRehashesPrefix ==
    /\ wire.state # "empty"
       => /\ Length(wire.text) = 64
          /\ hex_decode(wire.text) = Hash_bytes(wire.hash)
          /\ Length(Hash_bytes(wire.hash)) = 32
    /\ wire.state = "decoded"
       => /\ wire.decoded = Hash_from_bytes(Slice(Hash_bytes(wire.hash), 0, 16))
          /\ wire.decoded # wire.hash

C20_Witness ==
    /\ wire.state = "decoded"
    /\ wire.hash = Block_genesis.hash
    /\ wire.decoded = Hash_from_bytes(Hash_0(Block_genesis.hash))


\* a handler that holds the lock: between its lock() and its return
InCritical(t) == pc[t] \in {"locked", "mined", "return"}

\* a submit-payload request whose block is in the chain
Pushed(t) == local[t].kind = "mine_block" /\ pc[t] \in {"return", "done"}

\* C14: the handlers of the server are serialized by the mutex: at most one
\* handler is between its lock() and its return, so a get_blocks never runs
\* inside a submit; every snapshot returned by get_blocks is the chain as it
\* was fully before or fully after each submit, i.e. the genesis block
\* followed by the blocks of the first k submits that are in the chain, and
\* a snapshot taken earlier is a prefix of every snapshot taken later.
C14_SnapshotsSerialized ==
    /\ \A t1 \in Threads, t2 \in Threads :
          (InCritical(t1) /\ InCritical(t2)) => t1 = t2
    /\ \A t \in Threads : InCritical(t) => mutex.holder = t
    /\ \A i \in 1..Len(snaps) :
          /\ Len(snaps[i]) >= 1
          /\ IsPrefix(snaps[i], main)
          /\ \A j \in i..Len(snaps) : IsPrefix(snaps[i], snaps[j])
    /\ \A t \in Threads :
          (local[t].kind = "get_blocks" /\ pc[t] \in {"return", "done"})
          => IsPrefix(local[t].blocks, main)

C14_Witness ==
    /\ Len(snaps) = 2
    /\ Len(snaps[1]) = 1
    /\ Len(snaps[2]) = 2
    /\ \A t \in Threads : pc[t] = "done"

\* C19: no submission is lost: in every interleaving of the requests, each
\* submit-payload request that has pushed added exactly one block, so the
\* chain has its initial length plus the number of such requests (N when all
\* N are done), every submitted payload is in the chain as often as it was
\* submitted, no handler panics, and the chain passes validate().
C19_NoSubmissionLost ==
    /\ Len(main) = Len(Chain_default) + Cardinality({t \in Threads : Pushed(t)})
    /\ \A payload \in ServerPayloads :
          Cardinality({i \in 2..Len(main) : main[i].payload = payload})
          = Cardinality({t \in Threads : Pushed(t) /\ local[t].payload = payload})
    /\ \A t \in Threads : pc[t] # "panicked"
    /\ validate(main).ret = "Ok"

C19_Witness ==
    /\ \A t \in Threads : pc[t] = "done" /\ local[t].kind = "mine_block"
    /\ Len(main) = Len(Chain_default) + Cardinality(Threads)
    /\ \E i \in 2..Len(main), j \in 2..Len(main) : main[i].payload # main[j].payload

====
